---- MODULE Spec2Model ----
(***************************************************************************)
(* A model of batch_processor.py: one call of run_batch, the pool of       *)
(* worker processes it starts (init_worker, process_file) and the shared   *)
(* RateLimiter, against a monotonic clock.                                 *)
(*                                                                         *)
(* Time is in whole seconds.  The rates drawn divide 60, so that           *)
(* 60.0 / max_rpm is a whole number of seconds.                            *)
(***************************************************************************)
EXTENDS Integers, Sequences, FiniteSets, TLC

(***************************************************************************)
(* Bounds of the model.                                                    *)
(***************************************************************************)
MaxWorkers == 2      \* largest num_workers drawn
MaxItems == 2        \* largest number of matched files
MaxTime == 30        \* the clock runs freely up to here, then only as far
                     \* as a sleeping worker still needs

Minute == 60         \* the 60 of "60.0 / max_rpm" and of "per minute"
ClockStep == Minute \div 2

Max(a, b) == IF a >= b THEN a ELSE b

Workers == 1 .. MaxWorkers
LogIds == 0 .. MaxWorkers      \* the <id> of processing_log.<id>.txt
NumWorkersChoices == 0 .. MaxWorkers
MaxRpmChoices == {-2, 0, 1, 2}

(***************************************************************************)
(* Input files: a path relative to input_dir, as directory, stem and       *)
(* extension.  Two of them differ in the extension only.                   *)
(***************************************************************************)
AllPaths ==
    { [dir |-> "", stem |-> "a", ext |-> "rs"],
      [dir |-> "", stem |-> "a", ext |-> "txt"],
      [dir |-> "sub", stem |-> "a", ext |-> "rs"] }

NoItem == [dir |-> "", stem |-> "", ext |-> ""]

\* the order in which the directory lists them
DirOrder(p) ==
    IF p.dir = "sub" THEN 3 ELSE IF p.ext = "txt" THEN 2 ELSE 1

\* the lists glob can return: at most MaxItems paths, in directory order
FileLists ==
    { s \in UNION { [1 .. n -> AllPaths] : n \in 0 .. MaxItems } :
        \A i, j \in DOMAIN s : i < j => DirOrder(s[i]) < DirOrder(s[j]) }

Range(s) == { s[i] : i \in DOMAIN s }

\* file contents, as sequences of characters
Whitespace == {" ", "\n"}
Contents == { <<>>, <<" ", "\n">>, <<" ", "x">> }

\* str.strip(): leading and trailing whitespace removed
RECURSIVE LStrip(_)
LStrip(s) ==
    IF s # <<>> /\ Head(s) \in Whitespace THEN LStrip(Tail(s)) ELSE s

RECURSIVE RStrip(_)
RStrip(s) ==
    IF s # <<>> /\ s[Len(s)] \in Whitespace
    THEN RStrip(SubSeq(s, 1, Len(s) - 1))
    ELSE s

Strip(s) == RStrip(LStrip(s))

\* blank or whitespace-only
AllWhitespace(s) == \A i \in DOMAIN s : s[i] \in Whitespace

IsBlankNoStrip(content) == content = <<>>

\* "not content.strip()"
IsBlank(content) == Strip(content) = <<>>

(***************************************************************************)
(* The collaborator's answers: a response whose choices list is empty, or  *)
(* one choice whose message content is None, "" or a text.                 *)
(***************************************************************************)
MessageContents ==
    { [none |-> TRUE, text |-> ""],
      [none |-> FALSE, text |-> ""],
      [none |-> FALSE, text |-> "t1"] }

Responses ==
    { [choices |-> <<>>] } \cup { [choices |-> <<c>>] : c \in MessageContents }

NoResponse == [choices |-> <<>>]

\* str(response), the text written to raw_path
Str(r) == [repr |-> r]

\* "if generated_text:" - None and "" are false
Truthy(c) == ~c.none /\ c.text # ""

\* raw_dir / relative_path.parent / f"{filename}.txt"
RawPath(p) == [root |-> "raw_responses", dir |-> p.dir, name |-> p.stem, ext |-> "txt"]

\* generated_dir / relative_path.parent / f"{filename}.json"
GenPath(p) == [root |-> "generated_texts", dir |-> p.dir, name |-> p.stem, ext |-> "json"]

\* a write that keeps what the file held before
WriteFileKeeping(fs, path, data) == fs \cup { [path |-> path, data |-> data] }

\* open(path, "w") and write: the file holds exactly the data written
WriteFile(fs, path, data) ==
    { f \in fs : f.path # path } \cup { [path |-> path, data |-> data] }

(***************************************************************************)
(* The rate limiter's arithmetic.                                          *)
(***************************************************************************)
\* the rate taken for the interval: max_rpm / 60
IntervalInverted(rpm) == rpm \div Minute

\* self.interval = 60.0 / max_rpm   (max_rpm # 0)
Interval(rpm) == IF rpm > 0 THEN Minute \div rpm ELSE -(Minute \div (-rpm))

\* a caller that never waits
WaitTimeZero(now, slot) == 0

\* wait_time = max(0.0, self._next_slot.value - now)
WaitTime(now, slot) == Max(0, slot - now)

\* the interval left out of the update
NextSlotNoInterval(now, slot, ival) == Max(now, slot)

\* self._next_slot.value = max(now, self._next_slot.value) + self.interval
NextSlot(now, slot, ival) == Max(now, slot) + ival

\* the slot a caller is given: the value of max(now, next_slot) it reserves
AssignedSlot(now, slot) == Max(now, slot)


(***************************************************************************)
(* State.                                                                  *)
(***************************************************************************)
VARIABLES
    env,           \* what the file system and the collaborator may do
    num_workers,   \* run_batch's arguments
    max_rpm,
    files,         \* the list glob returned
    mainPc,        \* where run_batch stands
    mainError,     \* the exception run_batch ended with, or "none"
    manifest,      \* output_dir / files_found.txt
    raw,           \* the files under raw_responses
    gen,           \* the files under generated_texts
    log,           \* processing_log.<id>.txt, per id
    counter,       \* Value('i', 0) of run_batch
    idLock,        \* Lock() of run_batch: the worker holding it, or 0
    interval,      \* RateLimiter.interval
    next_slot,     \* RateLimiter._next_slot
    limLock,       \* RateLimiter._lock: the worker holding it, or 0
    clock,         \* time.monotonic()
    queue,         \* tasks of imap_unordered not yet taken
    completed,     \* items whose task returned
    raisedItems,   \* items whose task raised
    pc,            \* per worker process: where it stands
    WORKER_ID,     \* per worker process: the module global
    RATE_LIMITER,  \* per worker process: TRUE when the global is not None
    item,          \* per worker process: input_filepath of the running task
    idx,           \* per worker process: the local idx of process_file
    wakeAt,        \* per worker process: when its time.sleep ends
    response,      \* per worker process: the local response
    adm,           \* history: the admissions of acquire(), in lock order
    calls,         \* history: the start times of the calls of the last minute
    admIdx,        \* history: per worker, the index in adm of its last admission
    reads,         \* history: each item read, and whether its content was blank
    handed,        \* history: how often each item was handed to a worker
    writes,        \* history: how often each output file was written per item
    callFailed     \* history: the items whose external call raised

inputVars == <<env, num_workers, max_rpm, files>>
mainVars == <<mainPc, mainError>>
rootVars == <<manifest, raw, gen, log>>
idVars == <<counter, idLock>>
limVars == <<interval, next_slot, limLock>>
poolVars == <<queue, completed, raisedItems>>
procVars == <<pc, WORKER_ID, RATE_LIMITER, item, idx, wakeAt, response>>
histVars == <<adm, calls, admIdx, reads, handed, writes, callFailed>>

vars == <<inputVars, mainVars, rootVars, idVars, limVars, clock, poolVars,
          procVars, histVars>>

(***************************************************************************)
(* What the output root holds before the run: nothing, or what an earlier  *)
(* run with one worker left for one item.  The earlier run's response is   *)
(* one the collaborator can give again in this run.                        *)
(***************************************************************************)
PriorKinds == {"none", "PROCESSED"}

PriorPath == [dir |-> "", stem |-> "a", ext |-> "rs"]

PriorResponse(k) ==
    IF k = "PROCESSED"
    THEN [choices |-> <<[none |-> FALSE, text |-> "t1"]>>]
    ELSE [choices |-> <<[none |-> TRUE, text |-> ""]>>]

LogLine(tag, p, detail, w, new) ==
    [tag |-> tag, path |-> p, detail |-> detail, by |-> w, fresh |-> new]

PriorManifest(k) ==
    IF k = "none" THEN [exists |-> FALSE, lines |-> <<>>]
    ELSE [exists |-> TRUE, lines |-> <<PriorPath>>]

PriorRaw(k) ==
    IF k \in {"PROCESSED", "GEN_NONE"}
    THEN { [path |-> RawPath(PriorPath), data |-> Str(PriorResponse(k))] }
    ELSE {}

PriorGen(k) ==
    IF k = "PROCESSED"
    THEN { [path |-> GenPath(PriorPath), data |-> "t1"] }
    ELSE {}

PriorLog(k) ==
    [i \in LogIds |->
        IF i = 1 /\ k # "none"
        THEN <<LogLine(k, PriorPath, IF k = "ERROR" THEN "e0" ELSE "", 0, FALSE)>>
        ELSE <<>>]

\* every behaviour of the file system and of the collaborator
FullEnv ==
    [contents |-> Contents,       \* what a read may return
     readable |-> BOOLEAN,        \* whether open and read succeed
     failed |-> BOOLEAN,          \* whether client.query raises
     responses |-> Responses,     \* what client.query may return
     ok |-> BOOLEAN]              \* whether a write of an output file succeeds

\* the state before run_batch is called, its arguments and the environment
\* drawn from the sets given
InitRun(e, workerCounts, rates, priors) ==
    /\ env = e
    /\ num_workers \in workerCounts
    /\ max_rpm \in rates
    /\ files \in FileLists
    /\ mainPc = "start"
    /\ mainError = "none"
    /\ \E k \in priors :
        /\ manifest = PriorManifest(k)
        /\ raw = PriorRaw(k)
        /\ gen = PriorGen(k)
        /\ log = PriorLog(k)
    /\ counter = 0
    /\ idLock = 0
    /\ interval = 0
    /\ next_slot = 0
    /\ limLock = 0
    /\ clock = 0
    /\ queue = <<>>
    /\ completed = {}
    /\ raisedItems = {}
    /\ pc = [w \in Workers |-> "off"]
    /\ WORKER_ID = [w \in Workers |-> 0]
    /\ RATE_LIMITER = [w \in Workers |-> FALSE]
    /\ item = [w \in Workers |-> NoItem]
    /\ idx = [w \in Workers |-> 0]
    /\ wakeAt = [w \in Workers |-> 0]
    /\ response = [w \in Workers |-> NoResponse]
    /\ adm = <<>>
    /\ calls = <<>>
    /\ admIdx = [w \in Workers |-> 0]
    /\ reads = {}
    /\ handed = [p \in AllPaths |-> 0]
    /\ writes = [k \in {"raw", "gen"} \X AllPaths |-> 0]
    /\ callFailed = {}

Init == InitRun(FullEnv, NumWorkersChoices, MaxRpmChoices, PriorKinds)

(***************************************************************************)
(* run_batch, up to the pool.                                              *)
(***************************************************************************)
\* lines 152-170: BatchConfig, glob, the summary (total_files / max_rpm),
\* and the return when nothing matched
RunBatchSummary ==
    /\ mainPc = "start"
    /\ IF max_rpm = 0
       THEN mainPc' = "raised" /\ mainError' = "ZeroDivisionError"
       ELSE IF Len(files) = 0
       THEN mainPc' = "returned" /\ mainError' = mainError
       ELSE mainPc' = "manifest" /\ mainError' = mainError
    /\ UNCHANGED <<inputVars, rootVars, idVars, limVars, clock, poolVars,
                   procVars, histVars>>

\* files_found.txt opened for appending
WriteManifestAppending ==
    /\ mainPc = "manifest"
    /\ manifest' = [exists |-> TRUE, lines |-> manifest.lines \o files]
    /\ mainPc' = "pool"
    /\ UNCHANGED <<inputVars, mainError, raw, gen, log, idVars, limVars, clock,
                   poolVars, procVars, histVars>>

\* lines 172-174: files_found.txt, opened with "w"
WriteManifest ==
    /\ mainPc = "manifest"
    /\ manifest' = [exists |-> TRUE, lines |-> files]
    /\ mainPc' = "pool"
    /\ UNCHANGED <<inputVars, mainError, raw, gen, log, idVars, limVars, clock,
                   poolVars, procVars, histVars>>

\* lines 176-182: counter, lock, RateLimiter(max_rpm), Pool(processes=num_workers)
\* (which raises ValueError when num_workers < 1) and the tasks of imap_unordered
StartPool ==
    /\ mainPc = "pool"
    /\ counter' = 0
    /\ idLock' = 0
    /\ interval' = Interval(max_rpm)
    /\ next_slot' = 0
    /\ limLock' = 0
    /\ IF num_workers < 1
       THEN /\ mainPc' = "raised"
            /\ mainError' = "ValueError"
            /\ UNCHANGED <<pc, queue>>
       ELSE /\ mainPc' = "collect"
            /\ mainError' = mainError
            /\ pc' = [w \in Workers |-> IF w <= num_workers THEN "boot" ELSE "off"]
            /\ queue' = files
    /\ UNCHANGED <<inputVars, rootVars, clock, completed, raisedItems,
                   WORKER_ID, RATE_LIMITER, item, idx, wakeAt, response, histVars>>

(***************************************************************************)
(* init_worker, in each worker process.                                    *)
(***************************************************************************)
\* line 65: with lock
InitWorkerLock(w) ==
    /\ mainPc = "collect"
    /\ pc[w] = "boot"
    /\ idLock = 0
    /\ idLock' = w
    /\ pc' = [pc EXCEPT ![w] = "init_cs"]
    /\ UNCHANGED <<inputVars, mainVars, rootVars, counter, limVars, clock,
                   poolVars, WORKER_ID, RATE_LIMITER, item, idx, wakeAt,
                   response, histVars>>

\* a worker that takes the counter's value without incrementing it
InitWorkerAssignStale(w) ==
    /\ mainPc = "collect"
    /\ pc[w] = "init_cs"
    /\ counter' = counter + 1
    /\ WORKER_ID' = [WORKER_ID EXCEPT ![w] = counter]
    /\ idLock' = 0
    /\ RATE_LIMITER' = [RATE_LIMITER EXCEPT ![w] = TRUE]
    /\ pc' = [pc EXCEPT ![w] = "idle"]
    /\ UNCHANGED <<inputVars, mainVars, rootVars, limVars, clock, poolVars,
                   item, idx, wakeAt, response, histVars>>

\* lines 66-68: counter.value += 1; WORKER_ID = counter.value; the lock is
\* released; RATE_LIMITER = rate_limiter
InitWorkerAssign(w) ==
    /\ mainPc = "collect"
    /\ pc[w] = "init_cs"
    /\ counter' = counter + 1
    /\ WORKER_ID' = [WORKER_ID EXCEPT ![w] = counter + 1]
    /\ idLock' = 0
    /\ RATE_LIMITER' = [RATE_LIMITER EXCEPT ![w] = TRUE]
    /\ pc' = [pc EXCEPT ![w] = "idle"]
    /\ UNCHANGED <<inputVars, mainVars, rootVars, limVars, clock, poolVars,
                   item, idx, wakeAt, response, histVars>>

(***************************************************************************)
(* process_file, in a worker process.                                      *)
(***************************************************************************)
\* log.write(...) on open(log_path, "a")
AppendLog(lg, id, line) == [lg EXCEPT ![id] = Append(@, line)]

\* lines 71-94: the worker takes the next task; idx = WORKER_ID; the file is
\* read (open or read may raise); an empty item is logged and done
ProcessFileRead(w) ==
    /\ mainPc = "collect"
    /\ pc[w] = "idle"
    /\ queue # <<>>
    /\ LET p == Head(queue) IN
        /\ queue' = Tail(queue)
        /\ handed' = [handed EXCEPT ![p] = @ + 1]
        /\ idx' = [idx EXCEPT ![w] = WORKER_ID[w]]
        /\ \E readable \in env.readable, content \in env.contents :
            IF ~readable
            THEN /\ raisedItems' = raisedItems \cup {p}
                 /\ UNCHANGED <<completed, pc, item, log, reads>>
            ELSE /\ reads' = reads \cup { [path |-> p, blank |-> AllWhitespace(content)] }
                 /\ raisedItems' = raisedItems
                 /\ IF IsBlank(content)
                    THEN /\ log' = AppendLog(log, WORKER_ID[w],
                                             LogLine("EMPTY", p, "", w, TRUE))
                         /\ completed' = completed \cup {p}
                         /\ UNCHANGED <<pc, item>>
                    ELSE /\ item' = [item EXCEPT ![w] = p]
                         /\ pc' = [pc EXCEPT ![w] =
                                     IF RATE_LIMITER[w] THEN "acquire" ELSE "query"]
                         /\ UNCHANGED <<log, completed>>
    /\ UNCHANGED <<inputVars, mainVars, manifest, raw, gen, idVars, limVars,
                   clock, WORKER_ID, RATE_LIMITER, wakeAt, response, adm,
                   calls, admIdx, writes, callFailed>>

\* a lock that is not free while a worker is inside its external call
AcquireLockAfterCalls(w) ==
    /\ mainPc = "collect"
    /\ pc[w] = "acquire"
    /\ limLock = 0
    /\ \A v \in Workers : pc[v] # "incall"
    /\ limLock' = w
    /\ pc' = [pc EXCEPT ![w] = "cs"]
    /\ UNCHANGED <<inputVars, mainVars, rootVars, idVars, interval, next_slot,
                   clock, poolVars, WORKER_ID, RATE_LIMITER, item, idx, wakeAt,
                   response, histVars>>

\* line 34: with self._lock
AcquireLock(w) ==
    /\ mainPc = "collect"
    /\ pc[w] = "acquire"
    /\ limLock = 0
    /\ limLock' = w
    /\ pc' = [pc EXCEPT ![w] = "cs"]
    /\ UNCHANGED <<inputVars, mainVars, rootVars, idVars, interval, next_slot,
                   clock, poolVars, WORKER_ID, RATE_LIMITER, item, idx, wakeAt,
                   response, histVars>>

\* a caller that sleeps inside the with block, the lock still held
AcquireReserveHoldingLock(w) ==
    /\ mainPc = "collect"
    /\ pc[w] = "cs"
    /\ LET now == clock
           wait_time == WaitTime(now, next_slot)
       IN
        /\ next_slot' = NextSlot(now, next_slot, interval)
        /\ limLock' = IF wait_time > 0 THEN w ELSE 0
        /\ adm' = Append(adm, [item |-> item[w],
                               slot |-> AssignedSlot(now, next_slot)])
        /\ admIdx' = [admIdx EXCEPT ![w] = Len(adm) + 1]
        /\ wakeAt' = [wakeAt EXCEPT ![w] = IF wait_time > 0 THEN now + wait_time ELSE 0]
        /\ pc' = [pc EXCEPT ![w] = IF wait_time > 0 THEN "sleep" ELSE "query"]
    /\ UNCHANGED <<inputVars, mainVars, rootVars, idVars, interval, clock,
                   poolVars, WORKER_ID, RATE_LIMITER, item, idx, response,
                   calls, reads, handed, writes, callFailed>>

\* lines 35-40: now, wait_time, the new next_slot; the lock is released; the
\* caller sleeps when wait_time > 0, else acquire() returns
AcquireReserve(w) ==
    /\ mainPc = "collect"
    /\ pc[w] = "cs"
    /\ LET now == clock
           wait_time == WaitTime(now, next_slot)
       IN
        /\ next_slot' = NextSlot(now, next_slot, interval)
        /\ limLock' = 0
        /\ adm' = Append(adm, [item |-> item[w],
                               slot |-> AssignedSlot(now, next_slot)])
        /\ admIdx' = [admIdx EXCEPT ![w] = Len(adm) + 1]
        /\ wakeAt' = [wakeAt EXCEPT ![w] = IF wait_time > 0 THEN now + wait_time ELSE 0]
        /\ pc' = [pc EXCEPT ![w] = IF wait_time > 0 THEN "sleep" ELSE "query"]
    /\ UNCHANGED <<inputVars, mainVars, rootVars, idVars, interval, clock,
                   poolVars, WORKER_ID, RATE_LIMITER, item, idx, response,
                   calls, reads, handed, writes, callFailed>>

\* line 40: time.sleep(wait_time) ends, no earlier than after wait_time
AcquireWake(w) ==
    /\ mainPc = "collect"
    /\ pc[w] = "sleep"
    /\ clock >= wakeAt[w]
    /\ pc' = [pc EXCEPT ![w] = "query"]
    /\ UNCHANGED <<inputVars, mainVars, rootVars, idVars, limVars, clock,
                   poolVars, WORKER_ID, RATE_LIMITER, item, idx, wakeAt,
                   response, histVars>>

\* line 101: client.query(content) is invoked
QueryStart(w) ==
    /\ mainPc = "collect"
    /\ pc[w] = "query"
    /\ calls' = Append(calls, clock)
    /\ admIdx' = [admIdx EXCEPT ![w] = 0]
    /\ wakeAt' = [wakeAt EXCEPT ![w] = 0]
    /\ pc' = [pc EXCEPT ![w] = "incall"]
    /\ UNCHANGED <<inputVars, mainVars, rootVars, idVars, limVars, clock,
                   poolVars, WORKER_ID, RATE_LIMITER, item, idx, response,
                   adm, reads, handed, writes, callFailed>>

\* a worker without the except clause: the failure leaves process_file
QueryEndUncaught(w) ==
    /\ mainPc = "collect"
    /\ pc[w] = "incall"
    /\ \E failed \in env.failed, r \in env.responses :
        IF failed
        THEN /\ raisedItems' = raisedItems \cup {item[w]}
             /\ item' = [item EXCEPT ![w] = NoItem]
             /\ pc' = [pc EXCEPT ![w] = "idle"]
             /\ callFailed' = callFailed \cup {item[w]}
             /\ UNCHANGED <<log, completed, response>>
        ELSE /\ response' = [response EXCEPT ![w] = r]
             /\ pc' = [pc EXCEPT ![w] = "write_raw"]
             /\ UNCHANGED <<log, completed, raisedItems, item, callFailed>>
    /\ UNCHANGED <<inputVars, mainVars, manifest, raw, gen, idVars, limVars,
                   clock, queue, WORKER_ID, RATE_LIMITER, idx, wakeAt, adm,
                   calls, admIdx, reads, handed, writes>>

\* lines 100-105: client.query returns a response, or raises and the [ERROR]
\* line is logged and the task returns
QueryEnd(w) ==
    /\ mainPc = "collect"
    /\ pc[w] = "incall"
    /\ \E failed \in env.failed, r \in env.responses :
        IF failed
        THEN /\ log' = AppendLog(log, idx[w],
                                 LogLine("ERROR", item[w], "e1", w, TRUE))
             /\ completed' = completed \cup {item[w]}
             /\ item' = [item EXCEPT ![w] = NoItem]
             /\ pc' = [pc EXCEPT ![w] = "idle"]
             /\ callFailed' = callFailed \cup {item[w]}
             /\ UNCHANGED response
        ELSE /\ response' = [response EXCEPT ![w] = r]
             /\ pc' = [pc EXCEPT ![w] = "write_raw"]
             /\ UNCHANGED <<log, completed, item, callFailed>>
    /\ UNCHANGED <<inputVars, mainVars, manifest, raw, gen, idVars, limVars,
                   clock, queue, raisedItems, WORKER_ID, RATE_LIMITER, idx,
                   wakeAt, adm, calls, admIdx, reads, handed, writes>>

\* a worker that goes on to the extraction without writing the raw response
WriteRawSkipped(w) ==
    /\ mainPc = "collect"
    /\ pc[w] = "write_raw"
    /\ pc' = [pc EXCEPT ![w] = "extract"]
    /\ UNCHANGED <<inputVars, mainVars, rootVars, idVars, limVars, clock,
                   poolVars, WORKER_ID, RATE_LIMITER, item, idx, wakeAt,
                   response, histVars>>

\* lines 107-108: the raw response is written (open or write may raise)
WriteRaw(w) ==
    /\ mainPc = "collect"
    /\ pc[w] = "write_raw"
    /\ \E ok \in env.ok :
        IF ok
        THEN /\ raw' = WriteFile(raw, RawPath(item[w]), Str(response[w]))
             /\ writes' = [writes EXCEPT ![<<"raw", item[w]>>] = @ + 1]
             /\ pc' = [pc EXCEPT ![w] = "extract"]
             /\ UNCHANGED <<raisedItems, item, response>>
        ELSE /\ raisedItems' = raisedItems \cup {item[w]}
             /\ item' = [item EXCEPT ![w] = NoItem]
             /\ response' = [response EXCEPT ![w] = NoResponse]
             /\ pc' = [pc EXCEPT ![w] = "idle"]
             /\ UNCHANGED <<raw, writes>>
    /\ UNCHANGED <<inputVars, mainVars, manifest, gen, log, idVars, limVars,
                   clock, queue, completed, WORKER_ID, RATE_LIMITER, idx,
                   wakeAt, adm, calls, admIdx, reads, handed, callFailed>>

\* lines 110-120: response.choices[0].message.content (IndexError on an empty
\* choices list); a true text is written to gen_path (which may raise) and
\* [PROCESSED] is logged, anything else is logged [GEN_NONE]
ExtractAndWrite(w) ==
    /\ mainPc = "collect"
    /\ pc[w] = "extract"
    /\ \E ok \in env.ok :
        LET r == response[w]
            p == item[w]
            indexError == r.choices = <<>>
            generated_text == r.choices[1]
        IN
        IF indexError \/ (Truthy(generated_text) /\ ~ok)
        THEN /\ raisedItems' = raisedItems \cup {p}
             /\ UNCHANGED <<gen, log, completed, writes>>
        ELSE IF Truthy(generated_text)
        THEN /\ gen' = WriteFile(gen, GenPath(p), generated_text.text)
             /\ writes' = [writes EXCEPT ![<<"gen", p>>] = @ + 1]
             /\ log' = AppendLog(log, idx[w], LogLine("PROCESSED", p, "", w, TRUE))
             /\ completed' = completed \cup {p}
             /\ UNCHANGED raisedItems
        ELSE /\ log' = AppendLog(log, idx[w], LogLine("GEN_NONE", p, "", w, TRUE))
             /\ completed' = completed \cup {p}
             /\ UNCHANGED <<gen, raisedItems, writes>>
    /\ item' = [item EXCEPT ![w] = NoItem]
    /\ response' = [response EXCEPT ![w] = NoResponse]
    /\ pc' = [pc EXCEPT ![w] = "idle"]
    /\ UNCHANGED <<inputVars, mainVars, manifest, raw, idVars, limVars, clock,
                   queue, WORKER_ID, RATE_LIMITER, idx, wakeAt, adm, calls,
                   admIdx, reads, handed, callFailed>>

(***************************************************************************)
(* The clock, and the end of the pool.                                     *)
(***************************************************************************)
\* pool.terminate(): the worker processes end, and their memory with them
Terminate ==
    /\ pc' = [w \in Workers |-> "off"]
    /\ WORKER_ID' = [w \in Workers |-> 0]
    /\ RATE_LIMITER' = [w \in Workers |-> FALSE]
    /\ item' = [w \in Workers |-> NoItem]
    /\ idx' = [w \in Workers |-> 0]
    /\ wakeAt' = [w \in Workers |-> 0]
    /\ response' = [w \in Workers |-> NoResponse]

\* the times of  ts  that lie in the minute ending at  now: (now - 60, now]
LastMinute(ts, now) == SelectSeq(ts, LAMBDA t : t > now - Minute)

\* the worker's next step reads the clock: now in acquire(), the end of its
\* sleep, the start of the call
ReadsClock(w) == pc[w] \in {"cs", "sleep", "query"}

\* time.monotonic() moves on.  Time that passes while no worker is about to
\* read the clock is time that passes just before the next reading.
Tick ==
    /\ mainPc = "collect"
    /\ \E w \in Workers : ReadsClock(w)
    /\ \/ clock < MaxTime
       \/ \E w \in Workers : pc[w] = "sleep" /\ wakeAt[w] > clock
    /\ clock' = clock + ClockStep
    /\ calls' = LastMinute(calls, clock')
    /\ UNCHANGED <<inputVars, mainVars, rootVars, idVars, limVars, poolVars,
                   procVars, adm, admIdx, reads, handed, writes, callFailed>>

\* lines 180-183: every result has arrived and none is an exception; leaving
\* the with block terminates the worker processes
PoolFinish ==
    /\ mainPc = "collect"
    /\ raisedItems = {}
    /\ completed = Range(files)
    /\ mainPc' = "returned"
    /\ Terminate
    /\ UNCHANGED <<inputVars, mainError, rootVars, idVars, limVars, clock,
                   poolVars, histVars>>

\* lines 180-183: the iterator re-raises a task's exception in run_batch;
\* leaving the with block terminates the worker processes
PoolAbort ==
    /\ mainPc = "collect"
    /\ raisedItems # {}
    /\ mainPc' = "raised"
    /\ mainError' = "TaskException"
    /\ Terminate
    /\ UNCHANGED <<inputVars, rootVars, idVars, limVars, clock, poolVars,
                   histVars>>

Next ==
    \/ RunBatchSummary
    \/ WriteManifest
    \/ StartPool
    \/ \E w \in Workers :
        \/ InitWorkerLock(w)
        \/ InitWorkerAssign(w)
        \/ ProcessFileRead(w)
        \/ AcquireLock(w)
        \/ AcquireReserve(w)
        \/ AcquireWake(w)
        \/ QueryStart(w)
        \/ QueryEnd(w)
        \/ WriteRaw(w)
        \/ ExtractAndWrite(w)
    \/ Tick
    \/ PoolFinish
    \/ PoolAbort

Spec == Init /\ [][Next]_vars

(***************************************************************************)
(* The same program where nothing but the scheduling and the clock varies: *)
(* every file is readable and not blank, every call returns a text, every  *)
(* write succeeds, the output root is new and the arguments are valid.     *)
(* No task raises, so the pool is never torn down on an exception.         *)
(***************************************************************************)
QuietEnv ==
    [contents |-> { <<" ", "x">> },
     readable |-> {TRUE},
     failed |-> {FALSE},
     responses |-> { [choices |-> <<[none |-> FALSE, text |-> "t1"]>>] },
     ok |-> {TRUE}]

InitQuiet == InitRun(QuietEnv, Workers, {1, 2}, {"none"})

NextQuiet ==
    \/ RunBatchSummary
    \/ WriteManifest
    \/ StartPool
    \/ \E w \in Workers :
        \/ InitWorkerLock(w)
        \/ InitWorkerAssign(w)
        \/ ProcessFileRead(w)
        \/ AcquireLock(w)
        \/ AcquireReserve(w)
        \/ AcquireWake(w)
        \/ QueryStart(w)
        \/ QueryEnd(w)
        \/ WriteRaw(w)
        \/ ExtractAndWrite(w)
    \/ Tick
    \/ PoolFinish

SpecQuiet == InitQuiet /\ [][NextQuiet]_vars

(***************************************************************************)
(* Properties.                                                             *)
(***************************************************************************)
RunOver == mainPc \in {"returned", "raised"}

\* the run was not refused for its configuration
Accepted == mainError \notin {"ZeroDivisionError", "ValueError"}

\* the positions of the lines this run appended, over all worker logs
FreshLines ==
    UNION { { <<i, k>> : k \in { n \in DOMAIN log[i] : log[i][n].fresh } } :
            i \in LogIds }

LinesFor(p) == { l \in FreshLines : log[l[1]][l[2]].path = p }

\* the admissions whose slot lies in [t, t + 60)
SlotsInWindow(t) ==
    { j \in DOMAIN adm : adm[j].slot >= t /\ adm[j].slot < t + Minute }

SlotsSpaced ==
    \A k \in DOMAIN adm : k > 1 => adm[k].slot >= adm[k - 1].slot + interval

\* C1: with max_rpm > 0, each admitted call's slot is at least the previous
\* admitted call's slot plus interval, in lock order and whichever workers
\* called, and next_slot never decreases.
C1_SlotsSpacedByInterval ==
    /\ [](max_rpm > 0 => SlotsSpaced)
    /\ [][max_rpm > 0 => next_slot' >= next_slot]_vars

\* two workers, the second admitted while the first slot is still current:
\* it is given the next slot and sleeps until then
C1_Witness ==
    /\ max_rpm > 0
    /\ num_workers = 2
    /\ Len(adm) = 2
    /\ adm[2].slot = adm[1].slot + interval
    /\ \E w \in Workers : admIdx[w] = 2 /\ pc[w] = "sleep"

\* the step in which worker w's acquire() returns
AcquireReturns(w) == pc[w] \in {"cs", "sleep"} /\ pc'[w] = "query"

\* C2: no acquire() returns before its own slot; so admission j returns no
\* earlier than slot_i + (j - i) * interval for every admission i <= j.
C2_NoReturnBeforeSlot ==
    [][max_rpm > 0 =>
        \A w \in Workers :
            AcquireReturns(w) =>
                \A i \in 1 .. admIdx'[w] :
                    clock' >= adm'[i].slot + (admIdx'[w] - i) * interval]_vars

\* the second of two admissions has slept and returned, a full interval
\* after the first slot
C2_Witness ==
    /\ max_rpm > 0
    /\ num_workers = 2
    /\ Len(adm) = 2
    /\ \E w \in Workers :
        /\ pc[w] = "query"
        /\ admIdx[w] = 2
        /\ wakeAt[w] = adm[1].slot + interval
        /\ clock = wakeAt[w]

\* C3, as claimed: at most max_rpm external calls start in any half-open
\* 60-second window, whatever the delay between acquire() and the call.
\* (The calls of a window are all in the minute that ends at its last call.)
C3_CallsCappedPerWindow ==
    max_rpm > 0 => Len(LastMinute(calls, clock)) <= max_rpm

\* the step in which worker w invokes client.query
CallStarts(w) == pc[w] = "query" /\ pc'[w] = "incall"

\* C3, amended: at most max_rpm slots are assigned in any half-open
\* 60-second window, and no external call starts before its slot; the
\* start times themselves are not capped.
C3_SlotsCappedPerWindow ==
    /\ [](max_rpm > 0 =>
            \A k \in DOMAIN adm :
                Cardinality(SlotsInWindow(adm[k].slot)) <= max_rpm)
    /\ [][max_rpm > 0 =>
            \A w \in Workers :
                CallStarts(w) => clock >= adm[admIdx[w]].slot]_vars

\* two slots half a minute apart whose calls start at the same instant,
\* the first worker having been delayed after acquire() returned
C3_Witness ==
    /\ max_rpm = 2
    /\ Len(adm) = 2
    /\ adm[2].slot = adm[1].slot + interval
    /\ Len(calls) = 2
    /\ calls[1] = calls[2]

Line(l) == log[l[1]][l[2]]

\* C4: when the run ends, the run's outcome lines over all worker logs
\* number N, each item was handed to exactly one worker, and no item's
\* relative path is logged twice.
C4_ExactlyOnce ==
    (RunOver /\ Accepted) =>
        /\ Cardinality(FreshLines) = Len(files)
        /\ \A p \in Range(files) :
            /\ handed[p] = 1
            /\ Cardinality(LinesFor(p)) <= 1

\* an item whose external call raised: not an exception of its task, one
\* [ERROR] line with the detail, in the log of the worker that ran it
ErrorLogged(p) ==
    /\ p \notin raisedItems
    /\ p \in completed
    /\ \E l \in LinesFor(p) :
        /\ LinesFor(p) = {l}
        /\ Line(l).tag = "ERROR"
        /\ Line(l).detail = "e1"
        /\ RunOver \/ WORKER_ID[Line(l).by] = l[1]

\* the step in which worker w's external call raises
CallFails(w) == pc[w] = "incall" /\ item[w] \in callFailed' \ callFailed

\* C5: an item whose external call raises gets an [ERROR] line with the
\* detail in the owning worker's log; the worker goes on to further items;
\* the failure is no pool-level error and takes no other item's outcome
\* away: a run that ends in an error ends so for a task that raised, never
\* for a failed call, and a run that returns has an outcome for every item.
C5_InferenceFailureIsolated ==
    /\ [](/\ \A p \in callFailed : ErrorLogged(p)
          /\ mainError = "TaskException" => raisedItems # {}
          /\ mainPc = "returned" =>
                \A p \in Range(files) : Cardinality(LinesFor(p)) = 1)
    /\ [][\A w \in Workers :
            CallFails(w) =>
                /\ pc'[w] = "idle"
                /\ mainPc' = "collect"
                /\ raisedItems' = raisedItems
                /\ queue' = queue
                /\ \A v \in Workers \ {w} : pc'[v] = pc[v] /\ item'[v] = item[v]
                /\ \A p \in AllPaths \ {item[w]} : LinesFor(p)' = LinesFor(p)]_vars

\* one worker, two items: the first item's call raised, the second item was
\* processed by the same worker afterwards, and the run returned
C5_Witness ==
    /\ mainPc = "returned"
    /\ num_workers = 1
    /\ Len(files) = 2
    /\ files[1] \in callFailed
    /\ \E l \in LinesFor(files[2]) :
        Line(l).tag = "PROCESSED" /\ l[1] = 1 /\ l[2] > 1

\* C6: a per-item I/O failure (reading the input, writing the raw or the
\* generated file, extracting the text) fails that item only: the run is no
\* pool-level error and every other item reaches an outcome.
C6_IOFailureIsolated ==
    (RunOver /\ Accepted) =>
        /\ mainError = "none"
        /\ \A p \in Range(files) \ raisedItems : LinesFor(p) # {}

Alive(w) == pc[w] # "off"
Initialised(w) == pc[w] \notin {"off", "boot", "init_cs"}

\* C7: every worker has its identity before it takes an item; identities
\* are pairwise distinct and in 1 .. N, never 0; an identity does not
\* change while the worker lives; no two workers append to the same log.
C7_WorkerIdentity ==
    /\ [](/\ \A w \in Workers :
                /\ Initialised(w) => WORKER_ID[w] \in 1 .. num_workers
                /\ item[w] # NoItem => idx[w] = WORKER_ID[w]
          /\ \A v, w \in Workers :
                (v # w /\ Initialised(v) /\ Initialised(w)) =>
                    WORKER_ID[v] # WORKER_ID[w]
          /\ \A l \in FreshLines : l[1] \in 1 .. num_workers
          /\ \A l, m \in FreshLines :
                (l[1] = m[1]) <=> (Line(l).by = Line(m).by))
    /\ [][\A w \in Workers :
            (Initialised(w) /\ Alive(w)') => WORKER_ID'[w] = WORKER_ID[w]]_vars

\* two workers that took their identities against their start order, each
\* with a line in its own log
C7_Witness ==
    /\ num_workers = 2
    /\ WORKER_ID[1] = 2
    /\ WORKER_ID[2] = 1
    /\ \E l, m \in FreshLines :
        /\ l[1] = 1 /\ Line(l).by = 2
        /\ m[1] = 2 /\ Line(m).by = 1

NoItemHanded == \A p \in AllPaths : handed[p] = 0
NoWorkerStarted == \A w \in Workers : pc[w] = "off"

\* C8: max_rpm <= 0 is rejected as a configuration error before any worker
\* starts, any item is processed or any slot is handed out.
C8_NonPositiveRateRejected ==
    max_rpm <= 0 =>
        /\ NoWorkerStarted
        /\ NoItemHanded
        /\ adm = <<>>

\* C9: num_workers < 1 is rejected before any worker starts and with no item
\* processed, for every matched file set, the empty one included.
C9_InvalidWorkerCountRejected ==
    num_workers < 1 =>
        /\ NoWorkerStarted
        /\ NoItemHanded
        /\ RunOver => mainPc = "raised"

\* the step in which item p is read and found blank
ReadsBlank(p) ==
    [path |-> p, blank |-> TRUE] \in reads' \ reads

\* C10: an item whose content is blank or whitespace-only gets exactly one
\* [EMPTY] line with its relative path, in the log of the worker that read
\* it, and the worker returns; no external call is made for it, no slot is
\* consumed (next_slot unchanged), no raw or generated file is written.
C10_EmptyItemOnlyLogged ==
    /\ [](\A r \in reads :
            r.blank =>
                /\ r.path \in completed
                /\ \E l \in LinesFor(r.path) :
                    /\ LinesFor(r.path) = {l}
                    /\ Line(l).tag = "EMPTY"
                /\ \A k \in DOMAIN adm : adm[k].item # r.path
                /\ writes[<<"raw", r.path>>] = 0
                /\ writes[<<"gen", r.path>>] = 0)
    /\ [][\A p \in AllPaths :
            ReadsBlank(p) =>
                /\ UNCHANGED <<next_slot, adm, raw, gen, pc, item, callFailed>>
                /\ \E w \in Workers :
                    /\ pc[w] = "idle"
                    /\ log' = AppendLog(log, WORKER_ID[w],
                                        LogLine("EMPTY", p, "", w, TRUE))]_vars

\* one worker, two items: the first is whitespace-only and only logged, the
\* second went through the limiter and had its raw response written
C10_Witness ==
    /\ mainPc = "returned"
    /\ num_workers = 1
    /\ Len(files) = 2
    /\ [path |-> files[1], blank |-> TRUE] \in reads
    /\ Len(adm) = 1
    /\ writes[<<"raw", files[2]>>] = 1

\* C11: when the pattern matches no file, the run returns without an error,
\* has started no worker and appended to no worker log, and leaves a
\* manifest that lists no input path, whatever the output root held before.
C11_EmptyBatchLeavesEmptyManifest ==
    (Len(files) = 0 /\ max_rpm > 0 /\ RunOver) =>
        /\ mainPc = "returned"
        /\ mainError = "none"
        /\ NoWorkerStarted
        /\ FreshLines = {}
        /\ manifest.lines = <<>>

\* the step in which worker w writes the raw response of its item
WritesRaw(w) == pc[w] = "write_raw" /\ pc'[w] = "extract"

\* the step in which worker w writes the generated text of its item
WritesGen(w) ==
    pc[w] = "extract" /\ writes'[<<"gen", item[w]>>] # writes[<<"gen", item[w]>>]

\* a path holds one content
OneContent(fs) == \A f, g \in fs : f.path = g.path => f = g

\* C12: a write leaves at its path exactly the data written, whatever the
\* file held (overwritten, never appended to), so writing the same response
\* for the same item again leaves the raw and the generated file as they
\* were; each of the two files is written at most once per item per run.
C12_IdempotentOutput ==
    /\ [](/\ \A k \in DOMAIN writes : writes[k] <= 1
          /\ OneContent(raw)
          /\ OneContent(gen))
    /\ [][\A w \in Workers :
            /\ WritesRaw(w) =>
                LET f == [path |-> RawPath(item[w]), data |-> Str(response[w])] IN
                /\ f \in raw'
                /\ \A g \in raw' \ {f} : g \in raw /\ g.path # f.path
                /\ f \in raw => raw' = raw
            /\ WritesGen(w) =>
                LET f == [path |-> GenPath(item[w]),
                          data |-> response[w].choices[1].text] IN
                /\ f \in gen'
                /\ \A g \in gen' \ {f} : g \in gen /\ g.path # f.path
                /\ f \in gen => gen' = gen]_vars

\* the item an earlier run processed is processed again with the same
\* response: both files were written in this run and are as they were
C12_Witness ==
    /\ mainPc = "returned"
    /\ \E i \in LogIds : \E n \in DOMAIN log[i] : ~log[i][n].fresh
    /\ writes[<<"raw", PriorPath>>] = 1
    /\ writes[<<"gen", PriorPath>>] = 1
    /\ raw = PriorRaw("PROCESSED")
    /\ gen = PriorGen("PROCESSED")

(***************************************************************************)
(* Scheduling.  Every worker is an operating-system process of its own and *)
(* run_batch another, so each of them that can take a step eventually      *)
(* does, and time passes.  A lock is taken finitely often in a run, so a   *)
(* process waiting for it finds it free in the end.                        *)
(***************************************************************************)
\* a step of worker w other than the return of its external call
WorkerStep(w) ==
    \/ InitWorkerLock(w)
    \/ InitWorkerAssign(w)
    \/ ProcessFileRead(w)
    \/ AcquireLock(w)
    \/ AcquireReserve(w)
    \/ AcquireWake(w)
    \/ QueryStart(w)
    \/ WriteRaw(w)
    \/ ExtractAndWrite(w)

\* a step of run_batch
MainStep ==
    \/ RunBatchSummary
    \/ WriteManifest
    \/ StartPool
    \/ PoolFinish
    \/ PoolAbort

\* the item whose external call need not return
HungPath == [dir |-> "", stem |-> "a", ext |-> "rs"]

\* every external call returns but the call for HungPath, which may hang
FairnessHung ==
    /\ WF_vars(MainStep)
    /\ WF_vars(Tick)
    /\ \A w \in Workers :
        /\ WF_vars(WorkerStep(w))
        /\ WF_vars(QueryEnd(w) /\ item[w] # HungPath)

\* two workers, the one whose call may hang and one other; every file is
\* readable and not blank, every call that returns returns a text
InitHung == InitRun(QuietEnv, {2}, {2}, {"none"})

SpecHung == InitHung /\ [][NextQuiet]_vars /\ FairnessHung

\* C13: when the external call of one worker never returns, the limiter
\* still admits every other caller, and every item the hung worker does not
\* hold still gets its outcome.
C13_HungCallStallsOnlyItsWorker ==
    /\ \A w \in Workers : (pc[w] = "acquire") ~> (pc[w] = "query")
    /\ \A p \in AllPaths \ {HungPath} :
        (mainPc = "collect" /\ p \in Range(files)) ~> (LinesFor(p) # {})

\* the call for HungPath is still out, and the other worker has been
\* admitted after it and has finished its item
C13_Witness ==
    /\ mainPc = "collect"
    /\ Len(files) = 2
    /\ \E w \in Workers : pc[w] = "incall" /\ item[w] = HungPath
    /\ Len(adm) = 2
    /\ adm[1].item = HungPath
    /\ \E l \in LinesFor(files[2]) : Line(l).tag = "PROCESSED"

\* the item went through the limiter to the external call
ReachedCall(p) == \E k \in DOMAIN adm : adm[k].item = p

\* the tag of a line this run logged for the item is one of  tags
Logged(p, tags) == \E l \in LinesFor(p) : Line(l).tag \in tags

HasRaw(p) == \E f \in raw : f.path = RawPath(p)

\* C14, as claimed: after a batch the run has written a raw record for
\* every item that reached the external call, processed or errored, and for
\* no other item.
C14_RawRecordForEveryCall ==
    (max_rpm > 0 /\ mainPc = "returned") =>
        \A p \in Range(files) : ReachedCall(p) <=> writes[<<"raw", p>>] = 1

\* C14, amended: the run writes a raw record for exactly the items whose
\* external call returned a response ([PROCESSED] or [GEN_NONE]); an item
\* whose call raised ([ERROR]) reached the call and has none written, as
\* has an empty item.
C14_RawRecordForEveryResponse ==
    \A p \in AllPaths :
        /\ Logged(p, {"PROCESSED", "GEN_NONE"}) =>
                writes[<<"raw", p>>] = 1 /\ HasRaw(p)
        /\ Logged(p, {"ERROR", "EMPTY"}) => writes[<<"raw", p>>] = 0
        /\ writes[<<"raw", p>>] = 1 => ReachedCall(p) /\ p \notin callFailed

\* a run that returned with two items that both reached the call: the first
\* one's call raised and nothing was written for it, the second has its record
C14_Witness ==
    /\ mainPc = "returned"
    /\ Len(files) = 2
    /\ Len(adm) = 2
    /\ files[1] \in callFailed
    /\ writes[<<"raw", files[1]>>] = 0
    /\ ~HasRaw(files[1])
    /\ Logged(files[2], {"PROCESSED", "GEN_NONE"})
    /\ writes[<<"raw", files[2]>>] = 1

\* the step in which worker w leaves the with block of acquire()
LeavesCriticalSection(w) == pc[w] = "cs" /\ pc'[w] \in {"sleep", "query"}

\* C15: while the pool runs, the limiter lock is held in the critical
\* section of acquire() and nowhere else, so not by a worker that sleeps in
\* acquire() or is inside its external call, and another worker can take it
\* meanwhile; the wait is computed and next_slot updated in one critical
\* section, and next_slot changes nowhere else.
C15_LockOnlyForBookkeeping ==
    /\ [](/\ \A w \in Workers :
                mainPc = "collect" => (limLock = w <=> pc[w] = "cs")
          /\ \A w, v \in Workers :
                (pc[w] \in {"sleep", "incall"} /\ pc[v] = "acquire" /\ limLock = 0)
                    => ENABLED AcquireLock(v))
    /\ [][/\ \A w \in Workers :
                LeavesCriticalSection(w) =>
                    /\ limLock = w
                    /\ limLock' = 0
                    /\ next_slot' = Max(clock, next_slot) + interval
                    /\ pc'[w] = "sleep" <=> next_slot > clock
                    /\ pc'[w] = "sleep" => wakeAt'[w] = next_slot
          /\ next_slot' # next_slot =>
                \E w \in Workers : LeavesCriticalSection(w)]_vars

\* one worker is inside its external call and the other, admitted second,
\* sleeps in acquire(); neither holds the lock
C15_Witness ==
    /\ limLock = 0
    /\ \E w, v \in Workers :
        /\ pc[w] = "incall"
        /\ pc[v] = "sleep"
        /\ admIdx[v] = 2
        /\ wakeAt[v] > clock

\* the positions of the lines earlier runs left for the item
EarlierLinesFor(p) ==
    UNION { { <<i, k>> : k \in { n \in DOMAIN log[i] :
                                    ~log[i][n].fresh /\ log[i][n].path = p } } :
            i \in LogIds }

\* the item's most recent outcome: the one this run logged, else the one an
\* earlier run logged, else none
LastOutcome(p) ==
    IF LinesFor(p) # {} THEN Line(CHOOSE l \in LinesFor(p) : TRUE).tag
    ELSE IF EarlierLinesFor(p) # {}
    THEN Line(CHOOSE l \in EarlierLinesFor(p) : TRUE).tag
    ELSE "none"

HasGen(p) == \E f \in gen : f.path = GenPath(p)

\* C16: after the runs into one output root, an item's generated-text file
\* exists iff its most recent outcome is [PROCESSED], and its raw-response
\* file exists iff its most recent outcome is [PROCESSED] or [GEN_NONE].
C16_ArtifactsReflectLastOutcome ==
    (max_rpm > 0 /\ mainPc = "returned") =>
        \A p \in Range(files) :
            /\ HasGen(p) <=> LastOutcome(p) = "PROCESSED"
            /\ HasRaw(p) <=> LastOutcome(p) \in {"PROCESSED", "GEN_NONE"}

\* the items this run read, and those of them that were not blank
ItemsRead == { r.path : r \in reads }
NonEmptyItems == { r.path : r \in { x \in reads : ~x.blank } }

AdmissionsOf(p) == { k \in DOMAIN adm : adm[k].item = p }

\* C17: for a non-empty item, acquire() has returned for the item before
\* client.query is invoked, the call is not invoked again after it failed,
\* and the item consumes exactly one slot, also when its call fails; every
\* item that was read has exactly one line appended to a log.
C17_PipelineOrder ==
    /\ [](max_rpm > 0 =>
            /\ \A p \in AllPaths : Cardinality(AdmissionsOf(p)) <= 1
            /\ \A p \in callFailed : Cardinality(AdmissionsOf(p)) = 1
            /\ RunOver =>
                /\ \A p \in NonEmptyItems : Cardinality(AdmissionsOf(p)) = 1
                /\ \A p \in ItemsRead : Cardinality(LinesFor(p)) = 1)
    /\ [][max_rpm > 0 =>
            \A w \in Workers :
                /\ CallStarts(w) =>
                    /\ admIdx[w] # 0
                    /\ adm[admIdx[w]].item = item[w]
                    /\ admIdx'[w] = 0
                /\ CallFails(w) => pc'[w] = "idle" /\ item'[w] = NoItem]_vars

\* C18: two distinct items of the matched file set for which process_file
\* computes the output paths map to distinct raw paths and to distinct
\* generated paths, so that neither writes the other's output files.
C18_DistinctOutputPaths ==
    \A p, q \in NonEmptyItems :
        p # q => RawPath(p) # RawPath(q) /\ GenPath(p) # GenPath(q)

\* every external call returns, with a response or with a failure
Fairness ==
    /\ WF_vars(MainStep)
    /\ WF_vars(Tick)
    /\ \A w \in Workers :
        /\ WF_vars(WorkerStep(w))
        /\ WF_vars(QueryEnd(w))

SpecFair == Spec /\ Fairness

\* worker w waits for a lock that another process holds
Blocked(w) ==
    \/ pc[w] = "boot" /\ idLock # 0
    \/ pc[w] = "acquire" /\ limLock # 0

ValidConfiguration == max_rpm > 0 /\ num_workers >= 1

\* C19: with max_rpm > 0 and num_workers >= 1, when every external call
\* returns, the run ends, and it ends with an outcome logged for every
\* matched item; no worker holds the worker-id lock and the limiter lock at
\* once, and while the pool runs not all its workers wait for a lock.
C19_TerminatesWithOutcomes ==
    /\ ValidConfiguration ~> RunOver
    /\ []((ValidConfiguration /\ RunOver) =>
            \A p \in Range(files) : LinesFor(p) # {})
    /\ [](\A w \in Workers : ~(idLock = w /\ limLock = w))
    /\ []((ValidConfiguration /\ mainPc = "collect") =>
            \E w \in 1 .. num_workers : ~Blocked(w))

\* files_found.txt is there and lists the matched paths, each once
ManifestComplete ==
    /\ manifest.exists
    /\ manifest.lines = files
    /\ \A i, j \in DOMAIN manifest.lines :
        i # j => manifest.lines[i] # manifest.lines[j]

\* C20: in a run with at least one matched file that is not refused for a
\* zero rate, files_found.txt lists every matched path exactly once as soon
\* as run_batch is past writing it, so before any worker is started and
\* before any item is handed out, and it is not changed after that.
C20_ManifestBeforeProcessing ==
    /\ []((Len(files) >= 1 /\ max_rpm # 0) =>
            /\ mainPc \notin {"start", "manifest"} => ManifestComplete
            /\ (~NoWorkerStarted \/ ~NoItemHanded) => ManifestComplete)
    /\ [][mainPc \notin {"start", "manifest"} => manifest' = manifest]_vars

\* the output root held the manifest of an earlier run; this run matched
\* two files, its manifest lists the two, and a worker is inside a call
C20_Witness ==
    /\ \E i \in LogIds : \E n \in DOMAIN log[i] : ~log[i][n].fresh
    /\ Len(files) = 2
    /\ ManifestComplete
    /\ \E w \in Workers : pc[w] = "incall"

====
